---- MODULE Spec2Model ----
(***************************************************************************)
(* Groups and permissions of codalab/objects/permission.py: Group.validate *)
(* the group resolver (unique_group / get_single_group), the permission    *)
(* checks (_check_permission, _check_permission_on_bundles and their       *)
(* wrappers) and the permission codec (parse_permission / permission_str). *)
(*                                                                         *)
(* Strings that the code inspects character by character (uuids, names,    *)
(* group specs) are sequences of one-character strings.  The store (the    *)
(* `model` argument of every function) is the state: the group table, the  *)
(* membership relation, the grants and the owners of the resources.        *)
(***************************************************************************)
EXTENDS Integers, Sequences, FiniteSets, TLC

\* ------------------------------------------------------------- bounds
\* Number of hexadecimal digits of a uuid (the platform uses 32).
UuidDigits == 2
\* Longest list of bundle uuids handed to a batch check.
MaxBatch == 2

\* ------------------------------------------------------------- constants
GROUP_OBJECT_PERMISSION_NONE == 0
GROUP_OBJECT_PERMISSION_READ == 1
GROUP_OBJECT_PERMISSION_ALL == 2
Levels == {GROUP_OBJECT_PERMISSION_NONE, GROUP_OBJECT_PERMISSION_READ,
           GROUP_OBJECT_PERMISSION_ALL}

\* Python's None, as a user, a user id or a missing value.
None == "None"
UserIds == {"u1", "u2"}
\* A caller: an identity with a unique_id, or None (anonymous / root).
Callers == UserIds \cup {None}
\* Resources (worksheets, bundles), named by their uuid.
Resources == {"x", "y"}
\* Slots of the group table, in the order the store lists them; the public
\* group, when present, is the one in PublicSlot.
SlotOrder == <<"s1", "s2">>
Slots == {SlotOrder[i] : i \in 1..Len(SlotOrder)}
PublicSlot == "s1"

VARIABLES
    groups,      \* store: the group table, a function from the filled slots to rows
    members,     \* store: slot -> set of user ids that are members of the group
    grants,      \* store: <<slot, resource>> -> permission level granted
    owners,      \* store: resource -> user id of its owner
    call,        \* the last call made: its name and arguments
    ret,         \* what that call returned or raised
    storeCalls   \* the store queries that call issued, in order

store == <<groups, members, grants, owners>>
vars == <<groups, members, grants, owners, call, ret, storeCalls>>

\* ------------------------------------------------------------- strings
HexChars == {"0", "a", "b"}
LetterChars == {"a", "b", "g", "h", "p", "x"}
DigitChars == {"0"}
NameTailChars == LetterChars \cup DigitChars \cup {"_", ".", "-"}

\* spec_util.UUID_REGEX: 0x followed by exactly UuidDigits hex digits.
IsUuid(s) ==
    /\ Len(s) = 2 + UuidDigits
    /\ s[1] = "0" /\ s[2] = "x"
    /\ \A i \in 3..Len(s) : s[i] \in HexChars

\* spec_util.UUID_PREFIX_REGEX: 0x followed by 1 .. UuidDigits-1 hex digits.
IsUuidPrefix(s) ==
    /\ Len(s) >= 3 /\ Len(s) <= 1 + UuidDigits
    /\ s[1] = "0" /\ s[2] = "x"
    /\ \A i \in 3..Len(s) : s[i] \in HexChars

\* spec_util.NAME_REGEX: a letter or underscore, then letters, digits, _ . -
IsName(s) ==
    /\ Len(s) >= 1
    /\ s[1] \in LetterChars \cup {"_"}
    /\ \A i \in 2..Len(s) : s[i] \in NameTailChars

StartsWith(s, p) ==
    /\ Len(p) <= Len(s)
    /\ \A i \in 1..Len(p) : s[i] = p[i]

\* ------------------------------------------------------------- results
Ok(v) == [ok |-> TRUE, val |-> v]
Raise(kind, what, arg) == [ok |-> FALSE, kind |-> kind, what |-> what, arg |-> arg]

\* ------------------------------------------------------------- codec
\* parse_permission comparing without regard to case.
parse_permission_nocase(permission_str_) ==
    IF permission_str_ \in {"r", "read", "R", "READ", "Read"}
      THEN Ok(GROUP_OBJECT_PERMISSION_READ)
    ELSE IF permission_str_ \in {"a", "all", "A", "ALL"}
      THEN Ok(GROUP_OBJECT_PERMISSION_ALL)
    ELSE IF permission_str_ \in {"n", "none", "N", "None"}
      THEN Ok(GROUP_OBJECT_PERMISSION_NONE)
    ELSE Raise("UsageError", "Invalid permission flag specified", permission_str_)

\* parse_permission
parse_permission(permission_str_) ==
    IF "r" = permission_str_ \/ "read" = permission_str_
      THEN Ok(GROUP_OBJECT_PERMISSION_READ)
    ELSE IF "a" = permission_str_ \/ "all" = permission_str_
      THEN Ok(GROUP_OBJECT_PERMISSION_ALL)
    ELSE IF "n" = permission_str_ \/ "none" = permission_str_
      THEN Ok(GROUP_OBJECT_PERMISSION_NONE)
    ELSE Raise("UsageError", "Invalid permission flag specified", permission_str_)

\* permission_str
permission_str(permission) ==
    IF permission = 0 THEN Ok("none")
    ELSE IF permission = 1 THEN Ok("read")
    ELSE IF permission = 2 THEN Ok("all")
    ELSE Raise("UsageError", "Invalid permission", permission)

\* ------------------------------------------------------------- store
\* The groups a caller's grants are looked up through: the groups the user is
\* a member of; the anonymous caller is resolved against the public group.
CallerGroups(user_id) ==
    IF user_id = None
      THEN {s \in DOMAIN groups : s = PublicSlot}
      ELSE {s \in DOMAIN groups : user_id \in members[s]}

MaxOf(S) == IF S = {} THEN GROUP_OBJECT_PERMISSION_NONE
            ELSE CHOOSE m \in S : \A n \in S : n <= m

BestGrant(user_id, uuid) == MaxOf({grants[<<s, uuid>>] : s \in CallerGroups(user_id)})

\* model.get_user_permission(user_id, uuid, owner_id): the owner has ALL,
\* anyone else the best grant among the caller's groups.
get_user_permission(user_id, uuid, owner_id) ==
    IF user_id # None /\ user_id = owner_id
      THEN GROUP_OBJECT_PERMISSION_ALL
      ELSE BestGrant(user_id, uuid)

\* model.get_user_permission_on_bundles(user_id, uuids): one level per uuid,
\* in the order of the input list, all read from the same store state.
get_user_permission_on_bundles(user_id, bundle_uuids) ==
    [i \in 1..Len(bundle_uuids) |->
        get_user_permission(user_id, bundle_uuids[i], owners[bundle_uuids[i]])]

\* A store query as it appears in the log of a call.
Query(op, arg) == [op |-> op, arg |-> arg]

\* ------------------------------------------------------------- checks
\* user.unique_id if user else None
UniqueIdOf(user) == IF user # None THEN user ELSE None
\* '%s(%s)' % (user.name, user.unique_id) if user else None
UserStr(user) == IF user # None THEN <<user, user>> ELSE <<None>>

\* The resource object a caller hands to a check: its uuid and its owner.
Obj(uuid) == [uuid |-> uuid, owner_id |-> owners[uuid]]

Denied(user, on, have, need) ==
    [ok |-> FALSE, kind |-> "PermissionError", user_str |-> UserStr(user),
     on |-> on, have |-> have, need |-> need]

\* _check_permission comparing with > where the code has >=.
check_permission_strict(user, obj, need_permission) ==
    LET have_permission ==
            get_user_permission(UniqueIdOf(user), obj.uuid, obj.owner_id)
        queries == <<Query("get_user_permission",
                           <<UniqueIdOf(user), obj.uuid, obj.owner_id>>)>>
    IN  IF have_permission > need_permission
          THEN [ret |-> Ok(None), queries |-> queries]
          ELSE [ret |-> Denied(user, obj.uuid,
                               permission_str(have_permission).val,
                               permission_str(need_permission).val),
                queries |-> queries]

\* _check_permission handing the store the uuid where the owner id belongs.
check_permission_no_owner(user, obj, need_permission) ==
    LET have_permission ==
            get_user_permission(UniqueIdOf(user), obj.uuid, obj.uuid)
        queries == <<Query("get_user_permission",
                           <<UniqueIdOf(user), obj.uuid, obj.uuid>>)>>
    IN  IF have_permission >= need_permission
          THEN [ret |-> Ok(None), queries |-> queries]
          ELSE [ret |-> Denied(user, obj.uuid,
                               permission_str(have_permission).val,
                               permission_str(need_permission).val),
                queries |-> queries]

\* _check_permission: the value returned or raised, and the store queries made.
check_permission(user, obj, need_permission) ==
    LET have_permission ==
            get_user_permission(UniqueIdOf(user), obj.uuid, obj.owner_id)
        queries == <<Query("get_user_permission",
                           <<UniqueIdOf(user), obj.uuid, obj.owner_id>>)>>
    IN  IF have_permission >= need_permission
          THEN [ret |-> Ok(None), queries |-> queries]
          ELSE [ret |-> Denied(user, obj.uuid,
                               permission_str(have_permission).val,
                               permission_str(need_permission).val),
                queries |-> queries]

MinOf(seq) == CHOOSE m \in {seq[i] : i \in 1..Len(seq)} :
                  \A i \in 1..Len(seq) : m <= seq[i]

\* _check_permission_on_bundles taking the best of the permissions where the
\* code takes the least.
check_permission_on_bundles_max(user, bundle_uuids, need_permission) ==
    IF Len(bundle_uuids) = 0
      THEN [ret |-> Ok(None), queries |-> <<>>]
      ELSE
        LET have_permissions ==
                get_user_permission_on_bundles(UniqueIdOf(user), bundle_uuids)
            queries == <<Query("get_user_permission_on_bundles",
                               <<UniqueIdOf(user), bundle_uuids>>)>>
        IN  IF MaxOf({have_permissions[i] : i \in 1..Len(have_permissions)})
                 >= need_permission
              THEN [ret |-> Ok(None), queries |-> queries]
              ELSE [ret |-> Denied(user, bundle_uuids,
                                   [i \in 1..Len(have_permissions) |->
                                       permission_str(have_permissions[i]).val],
                                   permission_str(need_permission).val),
                    queries |-> queries]

\* _check_permission_on_bundles asking the store about one bundle at a time.
check_permission_on_bundles_each(user, bundle_uuids, need_permission) ==
    LET have_permissions ==
            [i \in 1..Len(bundle_uuids) |->
                get_user_permission(UniqueIdOf(user), bundle_uuids[i],
                                    owners[bundle_uuids[i]])]
        queries ==
            [i \in 1..Len(bundle_uuids) |->
                Query("get_user_permission",
                      <<UniqueIdOf(user), bundle_uuids[i], owners[bundle_uuids[i]]>>)]
    IN  IF \A i \in 1..Len(bundle_uuids) : have_permissions[i] >= need_permission
          THEN [ret |-> Ok(None), queries |-> queries]
          ELSE [ret |-> Denied(user, bundle_uuids,
                               [i \in 1..Len(have_permissions) |->
                                   permission_str(have_permissions[i]).val],
                               permission_str(need_permission).val),
                queries |-> queries]

\* _check_permission_on_bundles
check_permission_on_bundles(user, bundle_uuids, need_permission) ==
    IF Len(bundle_uuids) = 0
      THEN [ret |-> Ok(None), queries |-> <<>>]
      ELSE
        LET have_permissions ==
                get_user_permission_on_bundles(UniqueIdOf(user), bundle_uuids)
            queries == <<Query("get_user_permission_on_bundles",
                               <<UniqueIdOf(user), bundle_uuids>>)>>
        IN  IF MinOf(have_permissions) >= need_permission
              THEN [ret |-> Ok(None), queries |-> queries]
              ELSE [ret |-> Denied(user, bundle_uuids,
                                   [i \in 1..Len(have_permissions) |->
                                       permission_str(have_permissions[i]).val],
                                   permission_str(need_permission).val),
                    queries |-> queries]

\* ------------------------------------------------------------- group table
\* The uuids of the two slots share all but their last digit, so that a
\* prefix can match both; OtherUuid is a uuid no group has.
UuidWith(first, last) ==
    <<"0", "x">> \o [i \in 1..UuidDigits |->
                        IF i = UuidDigits THEN last ELSE IF i = 1 THEN first ELSE "a"]
SlotUuid(s) == IF s = "s1" THEN UuidWith("a", "a") ELSE UuidWith("a", "b")
OtherUuid == UuidWith("b", "0")
GroupNames == {<<"g">>, <<"h", "_">>}

GroupRows(s) ==
    [uuid : {SlotUuid(s)}, name : GroupNames, owner_id : UserIds,
     user_defined : BOOLEAN]

\* A filter of a store query on the group table: uuid=..., uuid=LikeQuery(...)
\* or name=...
Filter(field, like, value) == [field |-> field, like |-> like, value |-> value]

Matches(row, f) ==
    IF f.field = "uuid"
      THEN IF f.like THEN StartsWith(row.uuid, f.value) ELSE row.uuid = f.value
      ELSE row.name = f.value

\* The rows of the slots in S, in the order of the table.
RowsOf(S) ==
    LET picked == SelectSeq(SlotOrder, LAMBDA s : s \in S)
    IN  [i \in 1..Len(picked) |-> groups[picked[i]]]

\* model.batch_get_groups(**spec_filters)
batch_get_groups(spec_filters) ==
    RowsOf({s \in DOMAIN groups : Matches(groups[s], spec_filters)})

\* model.batch_get_all_groups(spec_filters, group_filters, user_group_filters):
\* the union of the groups matching group_filters and of the groups the
\* user of user_group_filters is a member of, restricted to spec_filters.
batch_get_all_groups(spec_filters, group_filters, user_group_filters) ==
    RowsOf({s \in DOMAIN groups :
               /\ Matches(groups[s], spec_filters)
               /\ \/ /\ groups[s].owner_id = group_filters.owner_id
                     /\ groups[s].user_defined = group_filters.user_defined
                  \/ user_group_filters.user_id \in members[s]})

\* ------------------------------------------------------------- resolver
\* spec_util.check_uuid and spec_util.check_name: TRUE when the check passes.
check_uuid(uuid) == IsUuid(uuid)
check_name(name) == IsName(name)

\* unique_group.search_all and unique_group.search_user, as closures.
search_all == [fn |-> "search_all", user_id |-> None]
search_user(user_id) == [fn |-> "search_user", user_id |-> user_id]

\* search_fn(model, **spec_filters)
Search(search_fn, spec_filters) ==
    IF search_fn.fn = "search_all"
      THEN [rows |-> batch_get_groups(spec_filters),
            queries |-> <<Query("batch_get_groups", <<spec_filters>>)>>]
      ELSE [rows |-> batch_get_all_groups(
                         spec_filters,
                         [owner_id |-> search_fn.user_id, user_defined |-> TRUE],
                         [user_id |-> search_fn.user_id]),
            queries |-> <<Query("batch_get_all_groups",
                                <<spec_filters, search_fn.user_id>>)>>]

\* "uuid starting with '%s'" and "name '%s'"
Descriptor(kind, group_spec) == [kind |-> kind, spec |-> group_spec]

UuidsOf(rows) == [i \in 1..Len(rows) |-> rows[i].uuid]

\* The tail of get_single_group settling for the first of several groups.
SingleOfFirst(found, message) ==
    IF Len(found.rows) = 0
      THEN [ret |-> Raise("UsageError", "Found no group with", message),
            queries |-> found.queries]
      ELSE [ret |-> Ok(found.rows[1]), queries |-> found.queries]

\* The tail of get_single_group: zero, several or one group found.
SingleOf(found, message) ==
    IF Len(found.rows) = 0
      THEN [ret |-> Raise("UsageError", "Found no group with", message),
            queries |-> found.queries]
    ELSE IF Len(found.rows) > 1
      THEN [ret |-> [ok |-> FALSE, kind |-> "UsageError",
                     what |-> "Found multiple groups with", arg |-> message,
                     uuids |-> UuidsOf(found.rows)],
            queries |-> found.queries]
    ELSE [ret |-> Ok(found.rows[1]), queries |-> found.queries]

\* get_single_group looking a full uuid up among the names.
get_single_group_by_name(group_spec, search_fn) ==
    IF group_spec = <<>>
      THEN [ret |-> Raise("UsageError", "Tried to expand empty group_spec!", <<>>),
            queries |-> <<>>]
    ELSE IF IsUuid(group_spec)
      THEN SingleOf(Search(search_fn, Filter("name", FALSE, group_spec)),
                    Descriptor("uuid starting with", group_spec))
    ELSE IF IsUuidPrefix(group_spec)
      THEN SingleOf(Search(search_fn, Filter("uuid", TRUE, group_spec)),
                    Descriptor("uuid starting with", group_spec))
    ELSE IF ~check_name(group_spec)
      THEN [ret |-> Raise("InvalidFormat", "name", group_spec), queries |-> <<>>]
    ELSE SingleOf(Search(search_fn, Filter("name", FALSE, group_spec)),
                  Descriptor("name", group_spec))

\* get_single_group
get_single_group(group_spec, search_fn) ==
    IF group_spec = <<>>
      THEN [ret |-> Raise("UsageError", "Tried to expand empty group_spec!", <<>>),
            queries |-> <<>>]
    ELSE IF IsUuid(group_spec)
      THEN SingleOf(Search(search_fn, Filter("uuid", FALSE, group_spec)),
                    Descriptor("uuid starting with", group_spec))
    ELSE IF IsUuidPrefix(group_spec)
      THEN SingleOf(Search(search_fn, Filter("uuid", TRUE, group_spec)),
                    Descriptor("uuid starting with", group_spec))
    ELSE IF ~check_name(group_spec)
      THEN [ret |-> Raise("InvalidFormat", "name", group_spec), queries |-> <<>>]
    ELSE SingleOf(Search(search_fn, Filter("name", FALSE, group_spec)),
                  Descriptor("name", group_spec))

\* unique_group searching every group whoever asks.
unique_group_all(group_spec, user_id) ==
    get_single_group(group_spec, search_all)

\* unique_group
unique_group(group_spec, user_id) ==
    IF user_id = None
      THEN get_single_group(group_spec, search_all)
      ELSE get_single_group(group_spec, search_user(user_id))

\* ------------------------------------------------------------- Group.validate
\* A Python value with its type.
Py(t, v) == [t |-> t, v |-> v]
\* isinstance(x, basestring), isinstance(x, bool)
IsBasestring(x) == x.t = "str"
IsBool(x) == x.t = "bool"

\* Group.validate without the check of user_defined.
validate_no_bool(self) ==
    IF ~check_uuid(self.uuid) THEN Raise("InvalidFormat", "uuid", self.uuid)
    ELSE IF ~check_name(self.name) THEN Raise("InvalidFormat", "name", self.name)
    ELSE IF ~IsBasestring(self.owner_id)
      THEN Raise("InvalidType", "Invalid value: owner_id.", self.owner_id)
    ELSE Ok(None)

\* Group.validate
validate(self) ==
    IF ~check_uuid(self.uuid) THEN Raise("InvalidFormat", "uuid", self.uuid)
    ELSE IF ~check_name(self.name) THEN Raise("InvalidFormat", "name", self.name)
    ELSE IF ~IsBasestring(self.owner_id)
      THEN Raise("InvalidType", "Invalid value: owner_id.", self.owner_id)
    ELSE IF ~IsBool(self.user_defined)
      THEN Raise("InvalidType", "Invalid value: user_defined.", self.user_defined)
    ELSE Ok(None)

\* ------------------------------------------------------------- initial states
NoCall == [op |-> "none"]

NoGrants == [p \in Slots \X Resources |-> GROUP_OBJECT_PERMISSION_NONE]

\* A public group and one user-defined group, both present.
BothGroups ==
    [s \in Slots |->
        IF s = PublicSlot
          THEN [uuid |-> SlotUuid(s), name |-> <<"g">>, owner_id |-> "u1",
                user_defined |-> FALSE]
          ELSE [uuid |-> SlotUuid(s), name |-> <<"h", "_">>, owner_id |-> "u1",
                user_defined |-> TRUE]]

GroupTables ==
    UNION {{t \in [D -> UNION {GroupRows(s) : s \in D}] :
               \A s \in D : t[s] \in GroupRows(s)} : D \in SUBSET Slots}

OwnerOf == [r \in Resources |-> IF r = "x" THEN "u1" ELSE "u2"]

Quiet ==
    /\ call = NoCall
    /\ ret = Ok(None)
    /\ storeCalls = <<>>

\* Stores for the permission checks: both groups, u1 a member of the
\* user-defined group and u2 of none, any grants, x owned by u1 and y by u2.
InitCheck ==
    /\ groups = BothGroups
    /\ members = [s \in Slots |-> IF s = PublicSlot THEN {} ELSE {"u1"}]
    /\ grants \in [Slots \X Resources -> Levels]
    /\ owners = OwnerOf
    /\ Quiet

\* Stores for the resolver: any group table and memberships, no grants.
InitResolve ==
    /\ groups \in GroupTables
    /\ members \in {m \in [Slots -> SUBSET UserIds] :
                        \A s \in Slots \ DOMAIN groups : m[s] = {}}
    /\ grants = NoGrants
    /\ owners = OwnerOf
    /\ Quiet

\* One store for the functions that do not read it.
InitPure ==
    /\ groups = BothGroups
    /\ members = [s \in Slots |-> {}]
    /\ grants = NoGrants
    /\ owners = OwnerOf
    /\ Quiet

\* Stores for checks and resolutions together: those of InitCheck in which
\* the public group holds no grant.
Init ==
    /\ InitCheck
    /\ \A r \in Resources : grants[<<PublicSlot, r>>] = GROUP_OBJECT_PERMISSION_NONE

\* ------------------------------------------------------------- actions
\* _check_permission adding the caller it refuses to the public group.
CheckPermissionWrites(user, uuid, need) ==
    LET outcome == check_permission(user, Obj(uuid), need)
    IN  /\ call' = [op |-> "check_permission", user |-> user, uuid |-> uuid,
                    need |-> need]
        /\ ret' = outcome.ret
        /\ storeCalls' = outcome.queries
        /\ members' = IF outcome.ret.ok \/ user = None THEN members
                       ELSE [members EXCEPT ![PublicSlot] = @ \cup {user}]
        /\ UNCHANGED <<groups, grants, owners>>

\* _check_permission(model, user, obj, need_permission)
CheckPermission(user, uuid, need) ==
    LET outcome == check_permission(user, Obj(uuid), need)
    IN  /\ call' = [op |-> "check_permission", user |-> user, uuid |-> uuid,
                    need |-> need]
        /\ ret' = outcome.ret
        /\ storeCalls' = outcome.queries
        /\ UNCHANGED store

\* check_has_read_permission(model, user, obj)
CheckHasReadPermission(user, uuid) ==
    LET outcome == check_permission(user, Obj(uuid), GROUP_OBJECT_PERMISSION_READ)
    IN  /\ call' = [op |-> "check_has_read_permission", user |-> user, uuid |-> uuid,
                    need |-> GROUP_OBJECT_PERMISSION_READ]
        /\ ret' = outcome.ret
        /\ storeCalls' = outcome.queries
        /\ UNCHANGED store

\* check_has_all_permission(model, user, obj)
CheckHasAllPermission(user, uuid) ==
    LET outcome == check_permission(user, Obj(uuid), GROUP_OBJECT_PERMISSION_ALL)
    IN  /\ call' = [op |-> "check_has_all_permission", user |-> user, uuid |-> uuid,
                    need |-> GROUP_OBJECT_PERMISSION_ALL]
        /\ ret' = outcome.ret
        /\ storeCalls' = outcome.queries
        /\ UNCHANGED store

\* check_has_read_permission_on_bundles(model, user, bundle_uuids)
CheckHasReadPermissionOnBundles(user, uuids) ==
    LET outcome == check_permission_on_bundles(user, uuids, GROUP_OBJECT_PERMISSION_READ)
    IN  /\ call' = [op |-> "check_has_read_permission_on_bundles", user |-> user,
                    uuids |-> uuids,
                    need |-> GROUP_OBJECT_PERMISSION_READ]
        /\ ret' = outcome.ret
        /\ storeCalls' = outcome.queries
        /\ UNCHANGED store

\* check_has_all_permission_on_bundles(model, user, bundle_uuids)
CheckHasAllPermissionOnBundles(user, uuids) ==
    LET outcome == check_permission_on_bundles(user, uuids, GROUP_OBJECT_PERMISSION_ALL)
    IN  /\ call' = [op |-> "check_has_all_permission_on_bundles", user |-> user,
                    uuids |-> uuids,
                    need |-> GROUP_OBJECT_PERMISSION_ALL]
        /\ ret' = outcome.ret
        /\ storeCalls' = outcome.queries
        /\ UNCHANGED store

\* unique_group(model, group_spec, user_id)
UniqueGroup(group_spec, user_id) ==
    LET outcome == unique_group(group_spec, user_id)
    IN  /\ call' = [op |-> "unique_group", spec |-> group_spec, user_id |-> user_id]
        /\ ret' = outcome.ret
        /\ storeCalls' = outcome.queries
        /\ UNCHANGED store

\* parse_permission(permission_str)
ParsePermission(token) ==
    LET outcome == parse_permission(token)
    IN  /\ call' = [op |-> "parse_permission", token |-> token]
        /\ ret' = outcome
        /\ storeCalls' = <<>>
        /\ UNCHANGED store

\* permission_str(permission)
PermissionStr(permission) ==
    LET outcome == permission_str(permission)
    IN  /\ call' = [op |-> "permission_str", permission |-> permission]
        /\ ret' = outcome
        /\ storeCalls' = <<>>
        /\ UNCHANGED store

\* Group.validate(self)
Validate(self) ==
    LET outcome == validate(self)
    IN  /\ call' = [op |-> "validate", self |-> self]
        /\ ret' = outcome
        /\ storeCalls' = <<>>
        /\ UNCHANGED store

\* ------------------------------------------------------------- inputs
\* Tokens handed to parse_permission: the six flags, the outputs of
\* permission_str, and other strings (other case, empty, digits).
Tokens == {"n", "none", "r", "read", "a", "all", "N", "None", "R", "READ",
           "Read", "A", "ALL", "", "w", "write", "0", "1", "2"}
\* Integers handed to permission_str.
Permissions == (0 - 2)..4

\* Group objects handed to validate.
GroupObjects ==
    [uuid : {SlotUuid("s1"), SubSeq(SlotUuid("s1"), 1, 3), <<"g">>},
     name : {<<"g">>, <<"h", "_">>, <<"0">>, <<"g", " ">>},
     owner_id : {Py("str", "u1"), Py("str", ""), Py("int", "7"), Py("NoneType", "None")},
     user_defined : {Py("bool", "True"), Py("bool", "False"), Py("int", "1"),
                     Py("NoneType", "None")}]

UuidLists == UNION {[1..n -> Resources] : n \in 0..MaxBatch}

Prefixes(s) == {SubSeq(s, 1, n) : n \in 1..Len(s)}

\* Group specs an operator may type: nothing, every prefix of a uuid, names
\* (one of them of no group) and a string that is not a name.
GroupSpecs ==
    {<<>>} \cup UNION {Prefixes(SlotUuid(s)) : s \in Slots} \cup Prefixes(OtherUuid)
           \cup GroupNames \cup {<<"p">>, <<"g", " ">>}

NextCheck ==
    \/ \E user \in Callers, uuid \in Resources, need \in Levels :
          CheckPermission(user, uuid, need)
    \/ \E user \in Callers, uuid \in Resources : CheckHasReadPermission(user, uuid)
    \/ \E user \in Callers, uuid \in Resources : CheckHasAllPermission(user, uuid)
    \/ \E user \in Callers, uuids \in UuidLists :
          CheckHasReadPermissionOnBundles(user, uuids)
    \/ \E user \in Callers, uuids \in UuidLists :
          CheckHasAllPermissionOnBundles(user, uuids)

NextResolve ==
    \E group_spec \in GroupSpecs, user_id \in Callers :
        UniqueGroup(group_spec, user_id)

NextPure ==
    \/ \E token \in Tokens : ParsePermission(token)
    \/ \E permission \in Permissions : PermissionStr(permission)
    \/ \E self \in GroupObjects : Validate(self)

Next == NextCheck \/ NextResolve

SpecCheck == InitCheck /\ [][NextCheck]_vars
SpecResolve == InitResolve /\ [][NextResolve]_vars
SpecPure == InitPure /\ [][NextPure]_vars
Spec == Init /\ [][Next]_vars

\* ------------------------------------------------------------- claims
SingleOps == {"check_permission", "check_has_read_permission",
              "check_has_all_permission"}
BatchOps == {"check_has_read_permission_on_bundles",
             "check_has_all_permission_on_bundles"}

\* The name of a level, as the spec's format gives it.
LevelName(level) ==
    CASE level = 0 -> "none" [] level = 1 -> "read" [] level = 2 -> "all"

\* The effective permission the store reports for the caller of the last
\* single check on the resource it named.
Reported == get_user_permission(UniqueIdOf(call.user), call.uuid, owners[call.uuid])

\* C1: a single check returns iff the effective permission the store reports
\* is at least the required level; otherwise it raises a permission error
\* whose have is that effective permission and whose need is the required one.
C1_CheckAtLeast ==
    call.op \in SingleOps =>
        /\ call.need \in Levels
        /\ ret.ok <=> Reported >= call.need
        /\ ret.ok => ret = Ok(None)
        /\ ~ret.ok => /\ ret.kind = "PermissionError"
                      /\ ret.have = LevelName(Reported)
                      /\ ret.need = LevelName(call.need)
                      /\ ret.on = call.uuid
                      /\ ret.user_str = UserStr(call.user)

\* C1 witness: a member of a group holding READ on a resource someone else
\* owns has failed the ALL check with have=read, need=all.
C1_Witness ==
    /\ call.op = "check_has_all_permission"
    /\ call.user # None
    /\ owners[call.uuid] # call.user
    /\ \E s \in DOMAIN groups : call.user \in members[s] /\ grants[<<s, call.uuid>>] = 1
    /\ ~ret.ok /\ ret.have = "read" /\ ret.need = "all"

\* The per-resource effective permissions the store reports for the last
\* batch check.
ReportedOnBundles == get_user_permission_on_bundles(UniqueIdOf(call.user), call.uuids)

\* C2: a batch check over a non-empty list raises a permission error iff the
\* minimum of the reported permissions is below the required level; it
\* succeeds only when every resource meets the required level.
C2_BatchMin ==
    (call.op \in BatchOps /\ Len(call.uuids) > 0) =>
        /\ ~ret.ok <=> \E i \in 1..Len(call.uuids) : ReportedOnBundles[i] < call.need
        /\ ret.ok <=> \A i \in 1..Len(call.uuids) : ReportedOnBundles[i] >= call.need
        /\ ~ret.ok => /\ ret.kind = "PermissionError"
                      /\ ret.need = LevelName(call.need)
                      /\ ret.have = [i \in 1..Len(call.uuids) |->
                                        LevelName(ReportedOnBundles[i])]

\* C2 witness: a batch of two resources, one meeting the required level and
\* one below it, has been refused.
C2_Witness ==
    /\ call.op \in BatchOps /\ Len(call.uuids) = 2
    /\ ReportedOnBundles[1] >= call.need
    /\ ReportedOnBundles[2] < call.need
    /\ ~ret.ok

\* C3: every check by the owner of the resource succeeds, whatever the grants.
C3_OwnerPasses ==
    (call.op \in SingleOps /\ call.user # None /\ call.user = owners[call.uuid])
        => ret = Ok(None)

\* C3 witness: the owner has passed the ALL check on a resource on which no
\* group holds a grant.
C3_Witness ==
    /\ call.op = "check_has_all_permission"
    /\ call.user = owners[call.uuid]
    /\ \A s \in Slots : grants[<<s, call.uuid>>] = GROUP_OBJECT_PERMISSION_NONE
    /\ ret.ok

\* C7: a batch check issues no store query for an empty list (and succeeds),
\* and exactly one get_user_permission_on_bundles query, covering the whole
\* list, for a non-empty one.
C7_OneQuery ==
    call.op \in BatchOps =>
        /\ Len(storeCalls) <= 1
        /\ Len(call.uuids) = 0 => storeCalls = <<>> /\ ret = Ok(None)
        /\ Len(call.uuids) > 0 =>
              storeCalls = <<Query("get_user_permission_on_bundles",
                                   <<UniqueIdOf(call.user), call.uuids>>)>>

\* C7 witness: a batch check of two resources has issued its one query.
C7_Witness ==
    /\ call.op \in BatchOps
    /\ Len(call.uuids) = 2 /\ call.uuids[1] # call.uuids[2]
    /\ Len(storeCalls) = 1

\* Whether the last call raised the error that starts with `what`.
Raised(what) == ~ret.ok /\ ret.what = what

\* The group of slot s is one the user is involved in: a user-defined group
\* the user owns, or a group the user is a member of.
Involved(s, user_id) ==
    \/ groups[s].owner_id = user_id /\ groups[s].user_defined
    \/ user_id \in members[s]

\* The search scope of a resolution: every group for root, the groups the
\* user is involved in otherwise.
InScope(s, user_id) == user_id = None \/ Involved(s, user_id)

\* A group row matches a spec by the spec's shape: a full uuid exactly, a
\* uuid prefix as a prefix, anything else as the name.
SpecMatches(row, group_spec) ==
    IF IsUuid(group_spec) THEN row.uuid = group_spec
    ELSE IF IsUuidPrefix(group_spec) THEN StartsWith(row.uuid, group_spec)
    ELSE row.name = group_spec

\* The spec has a shape that is searched for.
Searched(group_spec) ==
    /\ group_spec # <<>>
    /\ IsUuid(group_spec) \/ IsUuidPrefix(group_spec) \/ IsName(group_spec)

DescriptorOf(group_spec) ==
    IF IsUuid(group_spec) \/ IsUuidPrefix(group_spec)
      THEN Descriptor("uuid starting with", group_spec)
      ELSE Descriptor("name", group_spec)

\* The slots of the groups in the scope of the last resolution that match
\* its spec.
MatchSlots ==
    {s \in DOMAIN groups : InScope(s, call.user_id) /\ SpecMatches(groups[s], call.spec)}

\* C4: a resolution returns a group only for a non-empty spec that exactly
\* one group in scope matches, and returns that group; an empty spec, zero
\* matches and several matches each raise their usage error, the last one
\* listing the uuid of every match.
C4_ResolveUnique ==
    call.op = "unique_group" =>
        /\ ret.ok => /\ call.spec # <<>>
                     /\ \E s \in MatchSlots : MatchSlots = {s} /\ ret.val = groups[s]
        /\ call.spec = <<>> =>
              ret = Raise("UsageError", "Tried to expand empty group_spec!", <<>>)
        /\ (Searched(call.spec) /\ MatchSlots = {}) =>
              ret = Raise("UsageError", "Found no group with", DescriptorOf(call.spec))
        /\ (Searched(call.spec) /\ Cardinality(MatchSlots) > 1) =>
              /\ Raised("Found multiple groups with")
              /\ ret.kind = "UsageError"
              /\ ret.arg = DescriptorOf(call.spec)
              /\ Len(ret.uuids) = Cardinality(MatchSlots)
              /\ {ret.uuids[i] : i \in 1..Len(ret.uuids)}
                    = {groups[s].uuid : s \in MatchSlots}

\* C4 witness: a uuid prefix that two groups in scope match has been refused
\* with the list of both uuids.
C4_Witness ==
    /\ call.op = "unique_group"
    /\ IsUuidPrefix(call.spec)
    /\ Cardinality(MatchSlots) = 2
    /\ Raised("Found multiple groups with")
    /\ Len(ret.uuids) = 2

\* C5: with a requesting user, only groups the user is involved in are
\* returned or counted as matches; without one, every group is searched.
C5_Scope ==
    call.op = "unique_group" =>
        /\ (call.user_id # None /\ ret.ok) =>
              \E s \in DOMAIN groups : groups[s] = ret.val /\ Involved(s, call.user_id)
        /\ (call.user_id # None /\ Raised("Found multiple groups with")) =>
              \A i \in 1..Len(ret.uuids) :
                  \E s \in DOMAIN groups :
                      groups[s].uuid = ret.uuids[i] /\ Involved(s, call.user_id)
        /\ (call.user_id # None /\ Searched(call.spec)
              /\ ~\E s \in DOMAIN groups :
                     Involved(s, call.user_id) /\ SpecMatches(groups[s], call.spec)) =>
              Raised("Found no group with")
        /\ (call.user_id = None /\ Searched(call.spec)) =>
              /\ Raised("Found no group with")
                    <=> ~\E s \in DOMAIN groups : SpecMatches(groups[s], call.spec)
              /\ ret.ok <=>
                    Cardinality({s \in DOMAIN groups :
                                    SpecMatches(groups[s], call.spec)}) = 1

\* C5 witness: a user has asked for a group that exists and matches the spec
\* but that the user neither owns nor belongs to, and no group was found.
C5_Witness ==
    /\ call.op = "unique_group"
    /\ call.user_id # None
    /\ \E s \in DOMAIN groups :
          SpecMatches(groups[s], call.spec) /\ ~Involved(s, call.user_id)
    /\ Raised("Found no group with")

\* C6 as stated: resolving the full uuid of a group that exists in the store
\* returns exactly that group.
C6_FullUuidInStore ==
    call.op = "unique_group" =>
        \A s \in DOMAIN groups :
            (IsUuid(call.spec) /\ groups[s].uuid = call.spec) => ret = Ok(groups[s])

\* C6 amended: resolving the full uuid of a group that exists in the search
\* scope (the whole store for root, the groups the requesting user is
\* involved in otherwise) returns exactly that group.
C6_FullUuidInScope ==
    call.op = "unique_group" =>
        \A s \in DOMAIN groups :
            (IsUuid(call.spec) /\ groups[s].uuid = call.spec
               /\ InScope(s, call.user_id)) => ret = Ok(groups[s])

\* C6 witness: a user has resolved the full uuid of a group in their scope
\* while another group is stored next to it.
C6_Witness ==
    /\ call.op = "unique_group"
    /\ IsUuid(call.spec)
    /\ call.user_id # None
    /\ Cardinality(DOMAIN groups) = 2
    /\ ret.ok /\ ret.val.uuid = call.spec

\* The first failing check of a group object, in the order uuid, name,
\* owner_id, user_defined, with owner_id required to be a string.
FirstViolation(g) ==
    IF ~IsUuid(g.uuid) THEN <<"InvalidFormat", "uuid">>
    ELSE IF ~IsName(g.name) THEN <<"InvalidFormat", "name">>
    ELSE IF g.owner_id.t # "str" THEN <<"InvalidType", "Invalid value: owner_id.">>
    ELSE IF g.user_defined.t # "bool"
      THEN <<"InvalidType", "Invalid value: user_defined.">>
    ELSE <<>>

TokenLevel(token) ==
    CASE token \in {"n", "none"} -> GROUP_OBJECT_PERMISSION_NONE
      [] token \in {"r", "read"} -> GROUP_OBJECT_PERMISSION_READ
      [] token \in {"a", "all"} -> GROUP_OBJECT_PERMISSION_ALL

\* C9: parse accepts exactly n/none, r/read, a/all and refuses every other
\* token, naming it; format is defined exactly on 0, 1, 2 and refuses every
\* other integer; parsing a formatted level gives the level back, and
\* formatting that gives the same string.
C9_Codec ==
    /\ call.op = "parse_permission" =>
          /\ ret.ok <=> call.token \in {"n", "none", "r", "read", "a", "all"}
          /\ ret.ok => ret.val = TokenLevel(call.token)
          /\ ~ret.ok => ret.kind = "UsageError" /\ ret.arg = call.token
    /\ call.op = "permission_str" =>
          /\ ret.ok <=> call.permission \in Levels
          /\ ~ret.ok => ret.kind = "UsageError" /\ ret.arg = call.permission
          /\ ret.ok => /\ ret.val = LevelName(call.permission)
                       /\ parse_permission(ret.val) = Ok(call.permission)
                       /\ permission_str(parse_permission(ret.val).val) = ret

\* C9 witness: ALL has been formatted as "all".
C9_Witness ==
    /\ call.op = "permission_str"
    /\ call.permission = GROUP_OBJECT_PERMISSION_ALL
    /\ ret = Ok("all")

\* C10: no check and no resolution changes the store, and a call repeated
\* with the same arguments gives the same outcome.
C10_ReadOnly ==
    [][/\ store' = store
       /\ call' = call => (ret' = ret /\ storeCalls' = storeCalls)]_vars

\* C10 witness: a check has been refused and the store still holds the
\* membership and the owners it started with.
C10_Witness ==
    /\ call.op \in SingleOps \cup BatchOps
    /\ ~ret.ok
    /\ members[PublicSlot] = {}
    /\ owners = OwnerOf

====
